---- MODULE Spec2Model ----
(***************************************************************************)
(* Model of src/app.py, the Streamlit data visualizer.                     *)
(*                                                                         *)
(* The script is re-executed from its first line to its last on every user *)
(* interaction (page load, file upload, file removal, chart selection,     *)
(* manual rerun).  One action of the model is one such interaction together*)
(* with the whole script run it triggers.  The state is what survives a    *)
(* run: the process environment (GROQ_API_KEY), the widget state (the      *)
(* uploaded file, the selectbox value), matplotlib's global figure         *)
(* registry (figures are created and never closed), and what the last run  *)
(* left on the page.                                                       *)
(*                                                                         *)
(* A table is the sequence of its columns' dtypes, in column order; a      *)
(* column is named by its position in the table (pandas column labels are  *)
(* unique), so a Python list of column labels is a sequence of positions.  *)
(***************************************************************************)
EXTENDS Integers, Sequences, FiniteSets

\* ---------------------------------------------------------------- bounds
\* Largest number of columns of an uploaded table.
MaxCols == 3

\* ------------------------------------------------------------- data model
\* dtypes pandas.read_excel gives a column.
Dtypes == {"int64", "float64", "object", "bool", "datetime64"}

\* include=['number'] of select_dtypes: the numpy numeric kinds (bool and
\* datetime64 are not sub-dtypes of np.number).
NumberDtypes == {"int64", "float64"}

\* include=['object'] of select_dtypes.
ObjectDtypes == {"object"}

\* The tables pd.read_excel can return, up to MaxCols columns.
Tables == UNION {[1..n -> Dtypes] : n \in 0..MaxCols}

\* uploaded_file is None until the user uploads a workbook (no table has a
\* column of dtype "None").
NoFile == << "None" >>

\* The options of the selectbox, in order.
ChartTypes ==
  << "Bar Chart", "Stacked Bar Chart", "Line Chart", "Scatter Plot",
     "Heatmap", "Boxplot", "Pairplot", "Swarmplot", "Histogram",
     "Violin Plot", "Density Plot", "Area Chart", "Pie Chart",
     "Correlation Matrix", "Bubble Chart" >>

Range(s) == {s[i] : i \in 1..Len(s)}

\* ----------------------------------------------------------- classifier
\* df.select_dtypes(include=kinds).columns.tolist(): the labels of the
\* columns whose dtype is one of kinds, in the table's column order.
RECURSIVE select_dtypes(_, _, _)
select_dtypes(table, kinds, i) ==
  IF i > Len(table) THEN << >>
  ELSE (IF table[i] \in kinds THEN << i >> ELSE << >>)
         \o select_dtypes(table, kinds, i + 1)

numerical_of(table) == select_dtypes(table, NumberDtypes, 1)

categorical_of(table) == select_dtypes(table, ObjectDtypes, 1)

\* --------------------------------------------------------------- renderers
\* Mutant of Item: the index counts from the end of the list (list[-1 - i]).
ItemFromEnd(list, i) == IF i < Len(list) THEN list[Len(list) - i] ELSE 0

\* list[i] of Python (0-based); 0 stands for the IndexError of an index
\* that is out of range (column labels are >= 1).
Item(list, i) == IF i < Len(list) THEN list[i + 1] ELSE 0

\* Mutant of plt_figure: no new figure is made, and the renderer draws on
\* matplotlib's current figure, over whatever an earlier run drew.
plt_gcf(open) == open

\* plt.figure(): a new, blank current figure, whether or not earlier figures
\* are still open; TRUE iff the figure the renderer is about to draw on
\* already holds an earlier drawing.
plt_figure(open) == FALSE

\* What a script run (or a part of one) leaves behind: the elements written
\* to the page, the figures handed to st.pyplot, and the exception, if any,
\* that ended the run.
Shown(elements) == [screen |-> elements, plots |-> << >>, error |-> "none"]

\* One chart branch: plt.figure(), the plotting call with its column
\* arguments (args: single columns picked by index; data: a whole list of
\* columns), plt.title and st.pyplot(plt).  Evaluating an argument whose
\* index is out of range raises IndexError before anything is drawn.
Draw(renderer, args, data, open) ==
  IF 0 \in Range(args)
    THEN [screen |-> << "exception" >>, plots |-> << >>, error |-> "IndexError"]
    ELSE [screen |-> << "pyplot" >>,
          plots  |-> << [renderer |-> renderer, args |-> args, data |-> data,
                         under |-> plt_figure(open)] >>,
          error  |-> "none"]

\* Statements in sequence: b runs after a unless a raised.
Then(a, b) ==
  IF a.error # "none" THEN a
  ELSE [screen |-> a.screen \o b.screen, plots |-> a.plots \o b.plots,
        error |-> b.error]

\* Mutant of LongerThan: `len(list) >= n`, one column short.
AtLeast(list, n) == Len(list) >= n

\* Mutant of LongerThan: `len(list) > n + 1`, one column too many.
LongerThanNext(list, n) == Len(list) > n + 1

\* `len(list) > n`, the guard of the branches that index past element 0.
LongerThan(list, n) == Len(list) > n

\* Mutant of Truthy: `list is not None`, true of the empty list too.
IsNotNone(list) == TRUE

\* `if list:` / `and list`: a Python list is true iff it is not empty.
Truthy(list) == Len(list) > 0

\* The if/elif chain on chart_type; a chart name with no branch, or a branch
\* whose guard fails, falls off the end of the chain and displays nothing.
Chart(num, cat, chart, open) ==
  IF chart = "Bar Chart" /\ Truthy(cat) THEN
    Draw("barplot", << Item(cat, 0), Item(num, 0) >>, << >>, open)
  ELSE IF chart = "Stacked Bar Chart" /\ Truthy(cat) THEN
    Draw("groupby.sum.bar", << Item(cat, 0) >>, num, open)
  ELSE IF chart = "Line Chart" THEN
    Draw("lineplot", << >>, num, open)
  ELSE IF chart = "Scatter Plot" /\ LongerThan(num, 1) THEN
    Draw("scatterplot", << Item(num, 0), Item(num, 1) >>, << >>, open)
  ELSE IF chart = "Heatmap" /\ LongerThan(num, 1) THEN
    Draw("corr.heatmap", << >>, num, open)
  ELSE IF chart = "Boxplot" THEN
    Draw("boxplot", << >>, num, open)
  ELSE IF chart = "Pairplot" THEN
    Then(Shown(<< "subheader" >>), Draw("pairplot", << >>, num, open))
  ELSE IF chart = "Swarmplot" /\ Truthy(cat) THEN
    Draw("swarmplot", << Item(cat, 0), Item(num, 0) >>, << >>, open)
  ELSE IF chart = "Histogram" THEN
    Draw("histplot", << Item(num, 0) >>, << >>, open)
  ELSE IF chart = "Violin Plot" THEN
    Draw("violinplot", << >>, num, open)
  ELSE IF chart = "Density Plot" THEN
    Draw("kdeplot", << >>, num, open)
  ELSE IF chart = "Area Chart" THEN
    Draw("plot.area", << >>, num, open)
  ELSE IF chart = "Pie Chart" /\ Truthy(cat) THEN
    Draw("value_counts.pie", << Item(cat, 0) >>, << >>, open)
  ELSE IF chart = "Correlation Matrix" /\ LongerThan(num, 1) THEN
    Draw("corr.heatmap", << >>, num, open)
  ELSE IF chart = "Bubble Chart" /\ LongerThan(num, 2) THEN
    Draw("scatterplot", << Item(num, 0), Item(num, 1), Item(num, 2) >>,
         << >>, open)
  ELSE Shown(<< >>)

\* Mutant of Visualize: the Pie Chart branch is taken before the test of
\* numerical_columns.
VisualizePieFirst(num, cat, chart, open) ==
  IF chart = "Pie Chart" /\ Truthy(cat)
    THEN Draw("value_counts.pie", << Item(cat, 0) >>, << >>, open)
  ELSE IF Truthy(num)
    THEN Then(Shown(<< "subheader" >>), Chart(num, cat, chart, open))
    ELSE Shown(<< "warning" >>)

\* Mutant of Visualize: the warning is written after the if statement, not
\* in its else branch.
VisualizeThenWarn(num, cat, chart, open) ==
  Then(IF Truthy(num)
         THEN Then(Shown(<< "subheader" >>), Chart(num, cat, chart, open))
         ELSE Shown(<< >>),
       Shown(<< "warning" >>))

\* `if numerical_columns:` the subheader and the chain, `else:` the warning.
Visualize(num, cat, chart, open) ==
  IF Truthy(num)
    THEN Then(Shown(<< "subheader" >>), Chart(num, cat, chart, open))
    ELSE Shown(<< "warning" >>)

\* client.chat.completions.create(...) and st.write of its answer.  Nothing
\* here is guarded: the prompt is built from df.describe(include='all'),
\* which raises ValueError for a table without columns, and when the call
\* fails (ok = FALSE) its exception ends the run.
Advisory(table, ok) ==
  IF Len(table) = 0 THEN
    [screen |-> << "exception" >>, plots |-> << >>, error |-> "ValueError"]
  ELSE IF ok THEN Shown(<< "write" >>)
  ELSE [screen |-> << "exception" >>, plots |-> << >>, error |-> "APIError"]

\* What a run that does not reach a line leaves unset.
Unset == << >>

\* One execution of the script, top to bottom.
\*   key:  GROQ_API_KEY is set;   file: the uploader's value;
\*   pick: the selectbox's value; ok: the advisory call succeeds;
\*   open: matplotlib still holds a figure of an earlier run.
Script(key, file, pick, ok, open) ==
  IF ~key THEN
    [status |-> "stopped", out |-> Shown(<< "error" >>),
     df |-> Unset, num |-> Unset, cat |-> Unset]
  ELSE IF file = NoFile THEN
    [status |-> "idle", out |-> Shown(<< "title", "write", "file_uploader" >>),
     df |-> Unset, num |-> Unset, cat |-> Unset]
  ELSE
    LET head == Then(Shown(<< "title", "write", "file_uploader",
                              "subheader", "dataframe", "subheader" >>),
                     Advisory(file, ok))
        num  == numerical_of(file)
        cat  == categorical_of(file)
    IN  IF head.error # "none" THEN
          [status |-> "aborted", out |-> head,
           df |-> file, num |-> Unset, cat |-> Unset]
        ELSE
          LET out == Then(Then(head, Shown(<< "selectbox" >>)),
                          Visualize(num, cat, pick, open))
          IN  [status |-> IF out.error = "none" THEN "done" ELSE "aborted",
               out |-> out, df |-> file, num |-> num, cat |-> cat]

\* ------------------------------------------------------------------ state
VARIABLES
  GROQ_API_KEY,        \* TRUE iff the environment sets the key
  uploaded_file,       \* the file uploader's value: NoFile or a table
  chart_type,          \* the selectbox's value
  df,                  \* the table the last run read
  numerical_columns,   \* the last run's classification
  categorical_columns,
  status,              \* how the last run ended
  screen,              \* the page elements the last run wrote
  plots,               \* the figures the last run handed to st.pyplot
  error,               \* the exception that ended the last run, or "none"
  open_figures,        \* TRUE iff matplotlib holds a figure (none is closed)
  memo                 \* history: one earlier dispatch on the current table

vars == << GROQ_API_KEY, uploaded_file, chart_type, df, numerical_columns,
           categorical_columns, status, screen, plots, error, open_figures,
           memo >>

\* between: a dispatch of another chart was made since the remembered one.
NoMemo == [chart |-> "none", num |-> << >>, cat |-> << >>,
           screen |-> << >>, plots |-> << >>, between |-> FALSE]

\* The selectbox was on the page of the last run.
SelectboxShown == "selectbox" \in Range(screen)

\* The file uploader was on the page of the last run.
UploaderShown == "file_uploader" \in Range(screen)

\* The record of the dispatch a finished run made.
Dispatched(r, pick) ==
  [chart |-> pick, num |-> r.num, cat |-> r.cat,
   screen |-> r.out.screen, plots |-> r.out.plots, between |-> FALSE]

\* The remembered dispatch after a run that showed the selectbox (shown) with
\* the value pick.
Aged(m, shown, pick) ==
  IF m # NoMemo /\ shown /\ pick # m.chart
    THEN [m EXCEPT !.between = TRUE] ELSE m

\* The script runs with the given widget values.  keep: the history of the
\* current table survives the run (it does unless the file changes); hist:
\* histories are being recorded, and this run's dispatch may become the
\* remembered one.  A selectbox that a run does not reach loses its value:
\* the next run that shows it starts from the first option.
Run(file, pick, ok, keep, hist) ==
  \E r \in {Script(GROQ_API_KEY, file, pick, ok, open_figures)} :
  \E shown \in {"selectbox" \in Range(r.out.screen)} :
      /\ uploaded_file' = file
      /\ chart_type' = IF shown THEN pick ELSE ChartTypes[1]
      /\ df' = r.df
      /\ numerical_columns' = r.num
      /\ categorical_columns' = r.cat
      /\ status' = r.status
      /\ screen' = r.out.screen
      /\ plots' = r.out.plots
      /\ error' = r.out.error
      /\ open_figures' = (open_figures \/ r.out.plots # << >>)
      /\ memo' \in (IF keep THEN {Aged(memo, shown, pick)} ELSE {NoMemo})
                     \cup (IF hist /\ shown /\ (~keep \/ memo = NoMemo)
                             THEN {Dispatched(r, pick)} ELSE {})
      /\ UNCHANGED GROQ_API_KEY

\* The state after the page is first loaded: no file, the first option.
Init ==
  /\ GROQ_API_KEY \in BOOLEAN
  /\ uploaded_file = NoFile
  /\ chart_type = ChartTypes[1]
  /\ open_figures = FALSE
  /\ memo = NoMemo
  /\ LET r == Script(GROQ_API_KEY, NoFile, ChartTypes[1], TRUE, FALSE)
     IN  /\ df = r.df
         /\ numerical_columns = r.num
         /\ categorical_columns = r.cat
         /\ status = r.status
         /\ screen = r.out.screen
         /\ plots = r.out.plots
         /\ error = r.out.error

\* The user uploads a workbook.
UploadFile(hist) ==
  /\ UploaderShown
  /\ uploaded_file = NoFile
  /\ \E t \in Tables, ok \in BOOLEAN : Run(t, chart_type, ok, FALSE, hist)

\* The user removes the uploaded workbook.
RemoveFile(hist) ==
  /\ UploaderShown
  /\ uploaded_file # NoFile
  /\ Run(NoFile, chart_type, TRUE, FALSE, hist)

\* The user picks another option of the selectbox.
SelectChart(hist) ==
  /\ SelectboxShown
  /\ \E c \in Range(ChartTypes), ok \in BOOLEAN :
       /\ c # chart_type
       /\ Run(uploaded_file, c, ok, TRUE, hist)

\* The user reruns the script with the widgets as they are.
Rerun(hist) ==
  \E ok \in BOOLEAN : Run(uploaded_file, chart_type, ok, TRUE, hist)

Next == UploadFile(FALSE) \/ RemoveFile(FALSE) \/ SelectChart(FALSE) \/ Rerun(FALSE)

Spec == Init /\ [][Next]_vars

\* The same program, with one earlier dispatch per table remembered.
NextHistory ==
  UploadFile(TRUE) \/ RemoveFile(TRUE) \/ SelectChart(TRUE) \/ Rerun(TRUE)

SpecHistory == Init /\ [][NextHistory]_vars

TypeOK ==
  /\ GROQ_API_KEY \in BOOLEAN
  /\ uploaded_file \in Tables \cup {NoFile}
  /\ chart_type \in Range(ChartTypes)
  /\ status \in {"stopped", "idle", "aborted", "done"}
  /\ open_figures \in BOOLEAN

\* ------------------------------------------------------------------ claims
\* The vocabulary of the claims, stated on the table and the page and not on
\* the classifier or the chain.

\* The chart catalog's minimums (numerical / categorical), per chart name.
MinNumerical(c) ==
  IF c = "Pie Chart" THEN 0
  ELSE IF c \in {"Scatter Plot", "Heatmap", "Correlation Matrix"} THEN 2
  ELSE IF c = "Bubble Chart" THEN 3
  ELSE 1

MinCategorical(c) ==
  IF c \in {"Bar Chart", "Stacked Bar Chart", "Swarmplot", "Pie Chart"}
    THEN 1 ELSE 0

\* The classified table meets the catalog's minimums for chart c.
MeetsMinimums(c) ==
  /\ Len(numerical_columns) >= MinNumerical(c)
  /\ Len(categorical_columns) >= MinCategorical(c)

\* The last run reached the classification and the dispatch (lines 48-153).
DispatchRan == SelectboxShown

\* What the dispatch wrote to the page: the elements after the selectbox.
Output ==
  LET k == CHOOSE i \in 1..Len(screen) : screen[i] = "selectbox"
  IN  SubSeq(screen, k + 1, Len(screen))

\* The three outcomes of a dispatch.
FigureShown == "pyplot" \in Range(Output)

WarningShown == "warning" \in Range(Output)

SilentNoRender ==
  /\ error = "none"
  /\ plots = << >>
  /\ Range(Output) \subseteq {"subheader"}

\* The positions of the table's numeric (integer or float) and text columns.
NumberPositions == {i \in 1..Len(df) : df[i] \in {"int64", "float64"}}

TextPositions == {i \in 1..Len(df) : df[i] = "object"}

\* The k-th smallest element of a set of positions (k = 0 is the first).
RECURSIVE Kth(_, _)
Kth(S, k) ==
  LET m == CHOOSE i \in S : \A j \in S : i <= j
  IN  IF k = 0 THEN m ELSE Kth(S \ {m}, k - 1)

\* A list of positions in increasing (table) order.
InTableOrder(list) ==
  \A i, j \in 1..Len(list) : i < j => list[i] < list[j]

\* C1: a renderer runs only when the table meets its chart's minimums, and
\* every column index a branch reads is within its list: no run ends in an
\* IndexError, and every column a figure is drawn from is a classified column.
C1_RendererWithinColumns ==
  /\ error # "IndexError"
  /\ DispatchRan /\ plots # << >> => MeetsMinimums(chart_type)
  /\ \A k \in 1..Len(plots) :
       Range(plots[k].args) \subseteq
         Range(numerical_columns) \cup Range(categorical_columns)

\* C1 witness: the Bubble branch ran, reading numerical indexes 0, 1 and 2.
C1_Witness ==
  /\ status = "done"
  /\ chart_type = "Bubble Chart"
  /\ Len(plots) = 1
  /\ Len(plots[1].args) = 3

C3_InsufficientColumns ==
  DispatchRan /\ ~MeetsMinimums(chart_type) => SilentNoRender /\ ~WarningShown

\* C3 amended: whenever the classified table misses one of the chart's
\* minimums, no figure is displayed: the dispatch displays nothing when the
\* table has a numerical column, and the no-numerical-data warning when it has
\* none.
C3_NoFigureWhenInsufficient ==
  DispatchRan /\ ~MeetsMinimums(chart_type) =>
    /\ ~FigureShown
    /\ plots = << >>
    /\ error = "none"
    /\ IF Len(numerical_columns) >= 1
         THEN SilentNoRender
         ELSE Output = << "warning" >>

\* C3 witness: Bubble Chart on a table with one numerical column (have 1,
\* need 3) displays nothing.
C3_Witness ==
  /\ status = "done"
  /\ chart_type = "Bubble Chart"
  /\ Len(numerical_columns) = 1
  /\ SilentNoRender

\* C4: a table with no numerical column gives the no-numerical-data warning
\* and no rendering, for every chart name.
C4_NoNumericalData ==
  DispatchRan /\ NumberPositions = {} =>
    /\ Output = << "warning" >>
    /\ plots = << >>
    /\ error = "none"

\* C4 witness: Pie Chart on a table with a text column and no numerical one.
C4_Witness ==
  /\ status = "done"
  /\ chart_type = "Pie Chart"
  /\ NumberPositions = {}
  /\ TextPositions # {}
  /\ WarningShown

\* C5 as stated: a run whose advisory call fails still reaches the chart
\* selection and the dispatch.
C5_AdvisoryFailureStillRenders ==
  error = "APIError" => DispatchRan

\* C6 as stated: every column of the table is in exactly one of
\* numerical_columns and categorical_columns, and a column that is not
\* numeric is in categorical_columns.
C6_Partition ==
  DispatchRan =>
    \A i \in 1..Len(df) :
      /\ (i \in Range(numerical_columns)) # (i \in Range(categorical_columns))
      /\ i \notin NumberPositions => i \in Range(categorical_columns)

\* C8: a dispatch of the same table and chart name as a remembered earlier
\* one, whatever was dispatched in between, gives the same classification,
\* the same page output and the same figure; and the table read is the
\* uploaded one.
C8_Deterministic ==
  DispatchRan =>
    /\ df = uploaded_file
    /\ memo # NoMemo /\ memo.chart = chart_type =>
         /\ memo.num = numerical_columns
         /\ memo.cat = categorical_columns
         /\ memo.screen = screen
         /\ memo.plots = plots

\* C8 witness: a chart is drawn a second time, after another chart was
\* dispatched in between.
C8_Witness ==
  /\ status = "done"
  /\ memo # NoMemo
  /\ memo.chart = chart_type
  /\ memo.between
  /\ plots # << >>

\* C9: column selection is positional-first in table order.
C9_PositionalFirst ==
  DispatchRan =>
    /\ InTableOrder(numerical_columns)
    /\ InTableOrder(categorical_columns)
    /\ \A k \in 1..Len(plots) :
         LET c == chart_type
             N == NumberPositions
             T == TextPositions
         IN  /\ plots[k].args =
                  IF c \in {"Bar Chart", "Swarmplot"}
                    THEN << Kth(T, 0), Kth(N, 0) >>
                  ELSE IF c = "Histogram" THEN << Kth(N, 0) >>
                  ELSE IF c = "Scatter Plot" THEN << Kth(N, 0), Kth(N, 1) >>
                  ELSE IF c = "Bubble Chart"
                    THEN << Kth(N, 0), Kth(N, 1), Kth(N, 2) >>
                  ELSE IF c \in {"Stacked Bar Chart", "Pie Chart"}
                    THEN << Kth(T, 0) >>
                  ELSE << >>
             /\ IF c \in {"Line Chart", "Stacked Bar Chart", "Boxplot",
                          "Pairplot", "Violin Plot", "Density Plot",
                          "Area Chart", "Heatmap", "Correlation Matrix"}
                  THEN /\ Range(plots[k].data) = N
                       /\ InTableOrder(plots[k].data)
                  ELSE plots[k].data = << >>

\* C9 witness: a Bar Chart of a table with two text columns whose first
\* column is not a text column.
C9_Witness ==
  /\ status = "done"
  /\ chart_type = "Bar Chart"
  /\ Len(plots) = 1
  /\ Len(categorical_columns) >= 2
  /\ df[1] \notin {"object"}

\* C10: a dispatch displays at most one figure, and exactly one of a figure,
\* the warning and nothing.
C10_OneOutcome ==
  DispatchRan =>
    /\ Len(plots) <= 1
    /\ Cardinality({i \in 1..Len(Output) : Output[i] = "pyplot"}) = Len(plots)
    /\ Cardinality({i \in 1..Len(Output) : Output[i] = "warning"}) <= 1
    /\ ~(FigureShown /\ WarningShown)
    /\ ~(FigureShown /\ SilentNoRender)
    /\ ~(WarningShown /\ SilentNoRender)
    /\ error = "none" => FigureShown \/ WarningShown \/ SilentNoRender

\* C10 witness: a dispatch that displayed a figure.
C10_Witness ==
  /\ status = "done"
  /\ FigureShown
  /\ ~WarningShown
====
